---- MODULE Spec2Model ----
(***************************************************************************)
(* Static Code Analyzer (code_analyzer.py): the seven line detectors, the  *)
(* five syntax-node detectors, check_file's merge / sort / print, and the  *)
(* __main__ driver over one file or one directory.                         *)
(*                                                                         *)
(* A text is a sequence of one-character strings; a line is a text with no *)
(* "\n" in it.  An Issue is a record [code, msg, line_nbr]; msg is a       *)
(* sequence of strings (the pieces of the formatted message).              *)
(***************************************************************************)
EXTENDS Integers, Sequences, FiniteSets, TLC

\* ------------------------------------------------------------------ bounds
\* Longest text (in characters) drawn for the line-pass specifications.
MaxBlankLen == 6
MaxSemiLen == 6
MaxCommentLen == 5
MaxTodoLen == 5
\* Most catalogue pieces that make up one file the program reads.
MaxChunks == 2
\* The same, for the files of the reordered variant.
MaxReorderedChunks == 1

\* --------------------------------------------------------------- constants
MAX_LINE_LENGTH == 79
INDENT_UNIT == 4
MIN_COMMENT_GAP == 2
MAX_BLANK_LINES == 2
FirstLineNbr == 1

\* ----------------------------------------------------------------- strings
Min(S) == CHOOSE x \in S : \A y \in S : x <= y

Max(S) == CHOOSE x \in S : \A y \in S : y <= x

UpperChars ==
    <<"A","B","C","D","E","F","G","H","I","J","K","L","M",
      "N","O","P","Q","R","S","T","U","V","W","X","Y","Z">>

LowerChars ==
    <<"a","b","c","d","e","f","g","h","i","j","k","l","m",
      "n","o","p","q","r","s","t","u","v","w","x","y","z">>

Range(s) == {s[i] : i \in 1..Len(s)}

\* The characters \s matches and str.strip() removes, among those a line of
\* the model can hold.
IsSpace(c) == c \in {" ", "\t"}

\* str.lower(), character by character.
LowerChar(c) ==
    IF \E i \in 1..26 : UpperChars[i] = c
    THEN LowerChars[CHOOSE i \in 1..26 : UpperChars[i] = c]
    ELSE c

Lower(s) == [i \in 1..Len(s) |-> LowerChar(s[i])]

\* Index of the first c in s at or after position from; 0 when there is none.
IndexFrom(s, c, from) ==
    LET hits == {i \in from..Len(s) : s[i] = c}
    IN  IF hits = {} THEN 0 ELSE Min(hits)

\* `sub in s`
Contains(s, sub) ==
    \E i \in 1..(Len(s) - Len(sub) + 1) : SubSeq(s, i, i + Len(sub) - 1) = sub

\* str.split(sep) for a one-character separator.
RECURSIVE Split(_, _)
Split(s, sep) ==
    LET i == IndexFrom(s, sep, 1)
    IN  IF i = 0 THEN <<s>>
        ELSE <<SubSeq(s, 1, i - 1)>> \o Split(SubSeq(s, i + 1, Len(s)), sep)

\* Faulty variant of IsBlank: only the empty line counts as blank.
IsBlankEmptyOnly(line) == line = <<>>

\* line.strip() == ""
IsBlank(line) == \A i \in 1..Len(line) : IsSpace(line[i])

\* len(match[0]) for re.search(r"^\s+", line); 0 when there is no match.
LeadingSpaces(line) ==
    LET solid == {i \in 1..Len(line) : ~IsSpace(line[i])}
    IN  IF solid = {} THEN Len(line) ELSE Min(solid) - 1

\* re.sub(q + ".*?" + q, "", s): every non-greedy q...q pair removed, left to
\* right; a q with no later q matches nothing.
RECURSIVE SubQuoted(_, _)
SubQuoted(s, q) ==
    LET i == IndexFrom(s, q, 1)
        j == IF i = 0 THEN 0 ELSE IndexFrom(s, q, i + 1)
    IN  IF j = 0 THEN s
        ELSE SubSeq(s, 1, i - 1) \o SubQuoted(SubSeq(s, j + 1, Len(s)), q)

\* re.sub(r'#.*$', "", s): the text from the first # on removed.
SubComment(s) ==
    LET i == IndexFrom(s, "#", 1)
    IN  IF i = 0 THEN s ELSE SubSeq(s, 1, i - 1)

\* len(match[1]) for re.search(r"(\s*)#", line): the leftmost match starts at
\* the whitespace run that ends at the first #.
SpacesBeforeHash(line) ==
    LET p == IndexFrom(line, "#", 1)
        solid == {i \in 1..(p - 1) : ~IsSpace(line[i])}
    IN  IF solid = {} THEN p - 1 ELSE p - 1 - Max(solid)

\* ------------------------------------------------------------------- Issue
Issue(code, msg, line_nbr) == [code |-> code, msg |-> msg, line_nbr |-> line_nbr]

\* The rule catalogue, in the lexical order of the codes.
Codes ==
    <<"S001","S002","S003","S004","S005","S006",
      "S007","S008","S009","S010","S011","S012">>

CodeRank(code) == CHOOSE i \in 1..Len(Codes) : Codes[i] = code

\* re.match(r"[a-z_].*", text)
is_snake_case(text) ==
    /\ text # <<>>
    /\ text[1] \in Range(LowerChars) \cup {"_"}

\* re.match(r"[A-Z].*", name)
IsCamelStart(name) ==
    /\ name # <<>>
    /\ name[1] \in Range(UpperChars)

\* --------------------------------------------------------- line detectors
get_issue_001(line, line_nbr) ==
    IF Len(line) > MAX_LINE_LENGTH
    THEN <<Issue("S001", <<"Too long">>, line_nbr)>>
    ELSE <<>>

get_issue_002(line, line_nbr) ==
    LET nbr_spaces == LeadingSpaces(line)
    IN  IF nbr_spaces = 0 THEN <<>>
        ELSE IF nbr_spaces % INDENT_UNIT = 0 THEN <<>>
        ELSE <<Issue("S002", <<"Indentation is not a multiple of four">>, line_nbr)>>

\* Faulty variant of Stripped003: the comment is stripped before the string literals.
StrippedCommentFirst(line) == SubQuoted(SubQuoted(SubComment(line), "'"), "\"")

\* The line as get_issue_003 searches it for ";".
Stripped003(line) == SubComment(SubQuoted(SubQuoted(line, "'"), "\""))

get_issue_003(line, line_nbr) ==
    IF ";" \in Range(Stripped003(line))
    THEN <<Issue("S003", <<"Unnecessary semicolon">>, line_nbr)>>
    ELSE <<>>

get_issue_004(line, line_nbr) ==
    IF line # <<>> /\ line[1] = "#" THEN <<>>
    ELSE IF IndexFrom(line, "#", 1) = 0 THEN <<>>
    ELSE IF SpacesBeforeHash(line) < MIN_COMMENT_GAP
    THEN <<Issue("S004", <<"Less than two spaces before inline comments">>, line_nbr)>>
    ELSE <<>>

\* match[0] for re.search(r".*?(#.*$)", line): the search succeeds at the start
\* of the line as soon as the line holds a #, and group 0 is the whole match,
\* from the start of the line to its end.
Match005(line) == line

get_issue_005(line, line_nbr) ==
    IF IndexFrom(line, "#", 1) = 0 THEN <<>>
    ELSE IF Contains(Lower(Match005(line)), <<"t","o","d","o">>)
    THEN <<Issue("S005", <<"TODO found">>, line_nbr)>>
    ELSE <<>>

\* Faulty variant of get_issue_006: the threshold is compared with >=.
get_issue_006_AtLeast(nbr_lines, line_nbr) ==
    IF nbr_lines >= MAX_BLANK_LINES
    THEN <<Issue("S006", <<"More than two blank lines preceding a code line">>, line_nbr)>>
    ELSE <<>>

get_issue_006(nbr_lines, line_nbr) ==
    IF nbr_lines > MAX_BLANK_LINES
    THEN <<Issue("S006", <<"More than two blank lines preceding a code line">>, line_nbr)>>
    ELSE <<>>

\* Start positions of kw followed by two or more whitespace characters.
KeywordHits(line, kw) ==
    {i \in 1..(Len(line) - Len(kw) - 1) :
        /\ SubSeq(line, i, i + Len(kw) - 1) = kw
        /\ IsSpace(line[i + Len(kw)])
        /\ IsSpace(line[i + Len(kw) + 1])}

\* re.search(r"(def|class)\s{2,}", line): match[1] of the leftmost match.
get_issue_007(line, line_nbr) ==
    LET defs == KeywordHits(line, <<"d","e","f">>)
        classes == KeywordHits(line, <<"c","l","a","s","s">>)
        kw == IF classes = {} \/ (defs # {} /\ Min(defs) < Min(classes))
              THEN "def" ELSE "class"
    IN  IF defs \cup classes = {} THEN <<>>
        ELSE <<Issue("S007", <<"Too many spaces after '", kw, "'">>, line_nbr)>>

\* The detector get_issues_by_line calls in place d of its body.
Detect(d, line, line_nbr, preceding_empty_lines) ==
    CASE d = 1 -> get_issue_001(line, line_nbr)
      [] d = 2 -> get_issue_002(line, line_nbr)
      [] d = 3 -> get_issue_003(line, line_nbr)
      [] d = 4 -> get_issue_004(line, line_nbr)
      [] d = 5 -> get_issue_005(line, line_nbr)
      [] d = 6 -> get_issue_006(preceding_empty_lines, line_nbr)
      [] d = 7 -> get_issue_007(line, line_nbr)

Detectors == 1..7

RECURSIVE DetectFrom(_, _, _, _)
DetectFrom(d, line, line_nbr, preceding_empty_lines) ==
    IF d \notin Detectors THEN <<>>
    ELSE Detect(d, line, line_nbr, preceding_empty_lines)
         \o DetectFrom(d + 1, line, line_nbr, preceding_empty_lines)

\* What one turn of get_issues_by_line's loop yields for a non-blank line.
LineIssues(line, line_nbr, preceding_empty_lines) ==
    DetectFrom(1, line, line_nbr, preceding_empty_lines)

\* ---------------------------------------------------------- node detectors
RECURSIVE Concat(_)
Concat(ss) == IF ss = <<>> THEN <<>> ELSE Head(ss) \o Concat(Tail(ss))

get_issue_008(node) ==
    IF ~IsCamelStart(node.name)
    THEN <<Issue("S008", <<"Class name '">> \o node.name \o <<"' should use CamelCase">>,
                 node.lineno)>>
    ELSE <<>>

get_issue_009(node) ==
    IF ~is_snake_case(node.name)
    THEN <<Issue("S009", <<"Function name '">> \o node.name \o <<"' should use snake_case">>,
                 node.lineno)>>
    ELSE <<>>

get_issue_010(node) ==
    Concat([i \in 1..Len(node.args) |->
        IF ~is_snake_case(node.args[i].arg)
        THEN <<Issue("S010",
                     <<"Argument name '">> \o node.args[i].arg \o <<"' should be snake case">>,
                     node.args[i].lineno)>>
        ELSE <<>>])

\* What one statement of the function's body yields.
AssignIssues(stmt) ==
    IF stmt.kind # "Assign" THEN <<>>
    ELSE Concat([j \in 1..Len(stmt.targets) |->
        IF ~stmt.targets[j].has_id THEN <<>>
        ELSE IF ~is_snake_case(stmt.targets[j].id)
        THEN <<Issue("S011",
                     <<"Variable '">> \o stmt.targets[j].id \o <<"' should be snake case">>,
                     stmt.lineno)>>
        ELSE <<>>])

get_issue_011(node) ==
    Concat([i \in 1..Len(node.body) |-> AssignIssues(node.body[i])])

\* node.args.defaults: the defaults of the positional parameters only.
DefaultsChecked(node) == node.defaults

get_issue_012(node) ==
    LET defaults == DefaultsChecked(node)
    IN  Concat([i \in 1..Len(defaults) |->
            IF defaults[i].kind \in {"List", "Dict", "Set"}
            THEN <<Issue("S012", <<"Default argument value is mutable">>, defaults[i].lineno)>>
            ELSE <<>>])

\* What the body of get_issues_by_node's loop yields for one node.
NodeIssues(node) ==
    (IF node.kind = "ClassDef" THEN get_issue_008(node) ELSE <<>>)
    \o (IF node.kind = "FunctionDef"
        THEN get_issue_009(node) \o get_issue_010(node)
             \o get_issue_011(node) \o get_issue_012(node)
        ELSE <<>>)

\* ast.walk(tree) restricted to the definitions: breadth-first, that is by
\* depth and, within one depth, in document order.  nodes is in document order.
Walk(nodes) ==
    LET depths == {nodes[i].depth : i \in 1..Len(nodes)}
        AtDepth(d) == SelectSeq(nodes, LAMBDA n : n.depth = d)
    IN  IF depths = {} THEN <<>>
        ELSE Concat([d \in 1..Max(depths) |-> AtDepth(d)])

\* get_issues_by_node(text) when ast.parse(text) returns a tree.
get_issues_by_node(syntax) ==
    LET walk == Walk(syntax.nodes)
    IN  Concat([i \in 1..Len(walk) |-> NodeIssues(walk[i])])

\* ------------------------------------------------------------- source files
\* Pieces of Python source, each a run of whole physical lines that is a
\* sequence of complete top-level statements (or a blank or comment line),
\* with what ast.parse makes of it: whether it parses, and its ClassDef and
\* FunctionDef nodes in document order (depth: the node's depth in the tree,
\* lineno: relative to the piece).
Chunks ==
    <<
    \* plain assignment: x = 1
    [lines |-> <<<<"x"," ","="," ","1">>>>,
     parses |-> TRUE,
     nodes |-> <<>>],
    \* whitespace-only line: two spaces:   
    [lines |-> <<<<" "," ">>>>,
     parses |-> TRUE,
     nodes |-> <<>>],
    \* two statements on a line: x = 1; y = 2
    [lines |-> <<<<"x"," ","="," ","1",";"," ","y"," ","="," ","2">>>>,
     parses |-> TRUE,
     nodes |-> <<>>],
    \* the spec's end-to-end scenario
    [lines |-> <<<<"c","l","a","s","s"," ","m","y","C","l","a","s","s",":">>, <<" "," "," "," ",
          "d","e","f"," "," ","M","y","M","e","t","h","o","d","(","s","e","l","f",","," ","X",
          ")",":">>, <<" "," "," "," "," "," "," "," ","y"," ","="," ","[","1",",","2","]",";",
          " ","z"," ","="," ","5">>>>,
     parses |-> TRUE,
     nodes |-> <<[kind |-> "ClassDef", depth |-> 1, name |-> <<"m","y","C","l","a","s","s">>,
           lineno |-> 1,
          args |-> <<>>,
          defaults |-> <<>>,
          kw_defaults |-> <<>>,
          body |-> <<>>], [kind |-> "FunctionDef", depth |-> 2, name |-> <<"M","y","M","e","t",
                "h","o","d">>, lineno |-> 2,
          args |-> <<[arg |-> <<"s","e","l","f">>, lineno |-> 2], [arg |-> <<"X">>,
                lineno |-> 2]>>,
          defaults |-> <<>>,
          kw_defaults |-> <<>>,
          body |-> <<[kind |-> "Assign", targets |-> <<[has_id |-> TRUE, id |-> <<"y">>]>>,
                lineno |-> 3], [kind |-> "Assign", targets |-> <<[has_id |-> TRUE,
                id |-> <<"z">>]>>, lineno |-> 3]>>]>>],
    \* keyword-only mutable default
    [lines |-> <<<<"d","e","f"," ","f","(","*",","," ","a","=","[","]",")",":"," ","p","a","s",
          "s">>>>,
     parses |-> TRUE,
     nodes |-> <<[kind |-> "FunctionDef", depth |-> 1, name |-> <<"f">>, lineno |-> 1,
          args |-> <<>>,
          defaults |-> <<>>,
          kw_defaults |-> <<[kind |-> "List", lineno |-> 1]>>,
          body |-> <<[kind |-> "Pass", targets |-> <<>>, lineno |-> 1]>>]>>],
    \* bad names, mutable and immutable defaults
    [lines |-> <<<<"d","e","f"," ","F","(","A",","," ","b","=","[","]",","," ","c","=","{","}",
          ","," ","d","=","N","o","n","e",")",":"," ","B"," ","="," ","1",";"," ","c",".","d",
          " ","="," ","2">>>>,
     parses |-> TRUE,
     nodes |-> <<[kind |-> "FunctionDef", depth |-> 1, name |-> <<"F">>, lineno |-> 1,
          args |-> <<[arg |-> <<"A">>, lineno |-> 1], [arg |-> <<"b">>, lineno |-> 1],
                [arg |-> <<"c">>, lineno |-> 1], [arg |-> <<"d">>, lineno |-> 1]>>,
          defaults |-> <<[kind |-> "List", lineno |-> 1], [kind |-> "Dict", lineno |-> 1],
                [kind |-> "Constant", lineno |-> 1]>>,
          kw_defaults |-> <<>>,
          body |-> <<[kind |-> "Assign", targets |-> <<[has_id |-> TRUE, id |-> <<"B">>]>>,
                lineno |-> 1], [kind |-> "Assign", targets |-> <<[has_id |-> FALSE,
                id |-> <<>>]>>, lineno |-> 1]>>]>>],
    \* unbalanced syntax: def f(:
    [lines |-> <<<<"d","e","f"," ","f","(",":">>>>,
     parses |-> FALSE,
     nodes |-> <<>>],
    \* nested function with a set default
    [lines |-> <<<<"d","e","f"," ","o","u","t","e","r","(",")",":">>, <<" "," "," "," ","d","e",
          "f"," ","i","n","n","e","r","(","a","=","{","1","}",")",":"," ","p","a","s","s">>>>,
     parses |-> TRUE,
     nodes |-> <<[kind |-> "FunctionDef", depth |-> 1, name |-> <<"o","u","t","e","r">>,
           lineno |-> 1,
          args |-> <<>>,
          defaults |-> <<>>,
          kw_defaults |-> <<>>,
          body |-> <<[kind |-> "FunctionDef", targets |-> <<>>, lineno |-> 2]>>],
                [kind |-> "FunctionDef", depth |-> 2, name |-> <<"i","n","n","e","r">>,
                lineno |-> 2,
          args |-> <<[arg |-> <<"a">>, lineno |-> 2]>>,
          defaults |-> <<[kind |-> "Set", lineno |-> 2]>>,
          kw_defaults |-> <<>>,
          body |-> <<[kind |-> "Pass", targets |-> <<>>, lineno |-> 2]>>]>>],
    \* indented comment:  # todo
    [lines |-> <<<<" ","#"," ","t","o","d","o">>>>,
     parses |-> TRUE,
     nodes |-> <<>>],
    \* 80 characters
    [lines |-> <<<<"x","x","x","x","x","x","x","x","x","x","x","x","x","x","x","x","x","x","x",
          "x","x","x","x","x","x","x","x","x","x","x","x","x","x","x","x","x","x","x","x","x",
          "x","x","x","x","x","x","x","x","x","x","x","x","x","x","x","x","x","x","x","x","x",
          "x","x","x","x","x","x","x","x","x","x","x","x","x","x","x","x","x","x","x">>>>,
     parses |-> TRUE,
     nodes |-> <<>>]
    >>

ChunkIds == 1..Len(Chunks)

\* The files the model reads: every sequence of at most MaxChunks pieces.
ChunkSeqs == UNION {[1..k -> ChunkIds] : k \in 0..MaxChunks}

RECURSIVE Join(_, _)
Join(ls, sep) ==
    IF ls = <<>> THEN <<>>
    ELSE IF Len(ls) = 1 THEN ls[1]
    ELSE ls[1] \o <<sep>> \o Join(Tail(ls), sep)

FileLines(cs) == Concat([k \in 1..Len(cs) |-> Chunks[cs[k]].lines])

\* f.read(): the lines joined by "\n", with or without a final "\n".
FileText(cs, final_newline) ==
    Join(FileLines(cs), "\n") \o (IF final_newline /\ cs # <<>> THEN <<"\n">> ELSE <<>>)

ShiftNode(n, off) ==
    [n EXCEPT !.lineno = @ + off,
              !.args = [i \in 1..Len(@) |-> [@[i] EXCEPT !.lineno = @ + off]],
              !.defaults = [i \in 1..Len(@) |-> [@[i] EXCEPT !.lineno = @ + off]],
              !.kw_defaults = [i \in 1..Len(@) |-> [@[i] EXCEPT !.lineno = @ + off]],
              !.body = [i \in 1..Len(@) |-> [@[i] EXCEPT !.lineno = @ + off]]]

\* ast.parse(text) for the text of the pieces cs: a SyntaxError when a piece
\* does not parse, else the pieces' nodes at their lines in the file.
FileSyntax(cs) ==
    LET Offset(k) == Len(FileLines(SubSeq(cs, 1, k - 1)))
    IN  [parses |-> \A k \in 1..Len(cs) : Chunks[cs[k]].parses,
         nodes |-> Concat([k \in 1..Len(cs) |->
                     [i \in 1..Len(Chunks[cs[k]].nodes) |->
                        ShiftNode(Chunks[cs[k]].nodes[i], Offset(k))]])]

\* -------------------------------------------------------------- check_file
\* Faulty variant of KeyLess: the key is the line number alone.
KeyLessLineOnly(a, b) == a.line_nbr < b.line_nbr

\* sorted(issues, key=lambda i: (i.line_nbr, i.code)): the order of the keys.
KeyLess(a, b) ==
    \/ a.line_nbr < b.line_nbr
    \/ a.line_nbr = b.line_nbr /\ CodeRank(a.code) < CodeRank(b.code)

\* x put after the elements of the sorted acc that are not greater (stable).
InsertSorted(acc, x) ==
    LET k == Cardinality({i \in 1..Len(acc) : ~KeyLess(x, acc[i])})
    IN  SubSeq(acc, 1, k) \o <<x>> \o SubSeq(acc, k + 1, Len(acc))

\* Faulty variant of Sorted: the issues are printed as collected.
Unsorted(s) == s

RECURSIVE SortFrom(_, _, _)
SortFrom(acc, s, i) ==
    IF i > Len(s) THEN acc ELSE SortFrom(InsertSorted(acc, s[i]), s, i + 1)

Sorted(s) == SortFrom(<<>>, s, 1)

\* The fields of one printed line:
\* f"{filepath}: Line {issue.line_nbr}: {issue.code} {issue.msg}".
Render(filepath, issue) ==
    [filepath |-> filepath, line_nbr |-> issue.line_nbr,
     code |-> issue.code, msg |-> issue.msg]

Report(filepath, found) ==
    LET ordered == Sorted(found)
    IN  [i \in 1..Len(ordered) |-> Render(filepath, ordered[i])]

\* ------------------------------------------------------ get_issues_by_line
\* The issues get_issues_by_line yields from line number line_nbr on, entered
\* with the given count of blank lines.
RECURSIVE ScanFrom(_, _, _)
ScanFrom(ls, nbr, empty) ==
    LET i == nbr - FirstLineNbr + 1
    IN  IF i > Len(ls) THEN <<>>
        ELSE IF IsBlank(ls[i]) THEN ScanFrom(ls, nbr + 1, empty + 1)
        ELSE LineIssues(ls[i], nbr, empty) \o ScanFrom(ls, nbr + 1, 0)

get_issues_by_line(txt) == ScanFrom(Split(txt, "\n"), FirstLineNbr, 0)

\* ------------------------------------------------------------ file system
FileName(stem, suffix) == [stem |-> stem, suffix |-> suffix]

TestsPy == FileName("tests", ".py")

\* The names a directory may hold, in the order sorted() gives their paths.
AllNames ==
    <<FileName("a", ".py"), FileName("b", ".py"),
      FileName("notes", ".txt"), TestsPy>>

\* sys.argv[1]: a file, or a directory with its sorted listing.
Paths ==
    {[is_file |-> TRUE, files |-> <<AllNames[i]>>] : i \in 1..Len(AllNames)}
    \cup {[is_file |-> FALSE,
           files |-> SelectSeq(AllNames, LAMBDA n : n \in present)] :
            present \in SUBSET Range(AllNames)}

\* ------------------------------------------------------------------- state
VARIABLES
    path,                   \* sys.argv[1]
    pc,                     \* where the program is
    queue,                  \* the files the loop of __main__ has yet to visit
    filepath,               \* check_file's argument
    text,                   \* check_file's text
    syntax,                 \* what ast.parse(text) gives (read by the node pass only)
    lines,                  \* get_issues_by_line: text.split('\n')
    line_nbr,               \* get_issues_by_line: the number of the next line
    preceding_empty_lines,  \* get_issues_by_line: the blank-line counter
    issues,                 \* the list check_file is building
    printed,                \* the report lines the current check_file call printed
    reported,               \* the files whose check_file call returned
    pending,                \* reordered variant: detectors yet to run on the line
    node_first              \* reordered variant: the node pass is listed first

vars ==
    <<path, pc, queue, filepath, text, syntax, lines, line_nbr,
      preceding_empty_lines, issues, printed, reported, pending, node_first>>

scanner == <<lines, line_nbr, preceding_empty_lines>>
variant == <<pending, node_first>>

NoFile == FileName("", "")

\* ast.parse("") is an empty module.
EmptySyntax == FileSyntax(<<>>)

InitWith(p, c, f, t, sx) ==
    /\ path = p
    /\ pc = c
    /\ queue = <<>>
    /\ filepath = f
    /\ text = t
    /\ syntax = sx
    /\ lines = <<>>
    /\ line_nbr = FirstLineNbr
    /\ preceding_empty_lines = 0
    /\ issues = <<>>
    /\ printed = <<>>
    /\ reported = {}

Init ==
    /\ \E p \in Paths : InitWith(p, "main", NoFile, <<>>, EmptySyntax)
    /\ pending = {}
    /\ node_first = FALSE

\* ---------------------------------------------------------------- __main__
\* Lines 153-157: one file, or the sorted *.py files of the directory.
Main ==
    /\ pc = "main"
    /\ queue' = IF path.is_file THEN path.files
                ELSE SelectSeq(path.files, LAMBDA n : n.suffix = ".py")
    /\ pc' = "loop"
    /\ UNCHANGED <<path, filepath, text, syntax, scanner, issues, printed, reported, variant>>

\* Lines 155-160: the next file is checked, tests.py of a directory is
\* skipped, and the program ends when no file is left.
Loop ==
    /\ pc = "loop"
    /\ IF queue = <<>>
       THEN /\ pc' = "exit"
            /\ UNCHANGED <<queue, filepath>>
       ELSE IF ~path.is_file /\ Head(queue) = TestsPy
       THEN /\ queue' = Tail(queue)
            /\ UNCHANGED <<pc, filepath>>
       ELSE /\ filepath' = Head(queue)
            /\ queue' = Tail(queue)
            /\ pc' = "open"
    /\ UNCHANGED <<path, text, syntax, scanner, issues, printed, reported, variant>>

\* -------------------------------------------------------------- check_file
\* Lines 145-146: the file is read.
ReadFile ==
    /\ pc = "open"
    /\ \E cs \in ChunkSeqs, final_newline \in BOOLEAN :
          /\ text' = FileText(cs, final_newline)
          /\ syntax' = FileSyntax(cs)
    /\ issues' = <<>>
    /\ printed' = <<>>
    /\ pc' = "by_line"
    /\ UNCHANGED <<path, queue, filepath, scanner, reported, variant>>

\* Lines 112-113: get_issues_by_line starts.
StartLines ==
    /\ pc = "by_line"
    /\ lines' = Split(text, "\n")
    /\ line_nbr' = FirstLineNbr
    /\ preceding_empty_lines' = 0
    /\ pc' = "lines"
    /\ UNCHANGED <<path, queue, filepath, text, syntax, issues, printed, reported, variant>>

LineIndex == line_nbr - FirstLineNbr + 1

\* Lines 114-127: one turn of the loop over the lines.
ScanLine ==
    /\ pc = "lines"
    /\ LineIndex <= Len(lines)
    /\ IF IsBlank(lines[LineIndex])
       THEN /\ preceding_empty_lines' = preceding_empty_lines + 1
            /\ UNCHANGED issues
       ELSE /\ issues' = issues \o LineIssues(lines[LineIndex], line_nbr,
                                              preceding_empty_lines)
            /\ preceding_empty_lines' = 0
    /\ line_nbr' = line_nbr + 1
    /\ UNCHANGED <<path, pc, queue, filepath, text, syntax, lines, printed, reported, variant>>

\* Line 114: the lines are exhausted, the generator ends and its locals go.
EndLines ==
    /\ pc = "lines"
    /\ LineIndex > Len(lines)
    /\ lines' = <<>>
    /\ line_nbr' = FirstLineNbr
    /\ preceding_empty_lines' = 0
    /\ pc' = "by_node"
    /\ UNCHANGED <<path, queue, filepath, text, syntax, issues, printed, reported, variant>>

\* Faulty variant of ByNode: a SyntaxError is swallowed and the node pass yields nothing.
ByNodeSwallowing ==
    /\ pc = "by_node"
    /\ issues' = issues \o (IF syntax.parses THEN get_issues_by_node(syntax) ELSE <<>>)
    /\ pc' = "print"
    /\ UNCHANGED <<path, queue, filepath, text, syntax, scanner, printed, reported, variant>>

\* Lines 130-141, as line 147 consumes them: ast.parse raises SyntaxError,
\* which nothing catches, or the node issues follow the line issues.
ByNode ==
    /\ pc = "by_node"
    /\ IF syntax.parses
       THEN /\ issues' = issues \o get_issues_by_node(syntax)
            /\ pc' = "print"
       ELSE /\ pc' = "SyntaxError"
            /\ UNCHANGED issues
    /\ UNCHANGED <<path, queue, filepath, text, syntax, scanner, printed, reported, variant>>

\* Lines 148-149: the sorted issues are printed.
PrintReport ==
    /\ pc = "print"
    /\ printed' = Report(filepath, issues)
    /\ pc' = "return"
    /\ UNCHANGED <<path, queue, filepath, text, syntax, scanner, issues, reported, variant>>

\* check_file returns to __main__ and its locals go.
Return ==
    /\ pc = "return"
    /\ reported' = reported \cup {filepath}
    /\ text' = <<>>
    /\ syntax' = EmptySyntax
    /\ issues' = <<>>
    /\ printed' = <<>>
    /\ pc' = "loop"
    /\ UNCHANGED <<path, queue, filepath, scanner, variant>>

Next ==
    \/ Main
    \/ Loop
    \/ ReadFile
    \/ StartLines
    \/ ScanLine
    \/ EndLines
    \/ ByNode
    \/ PrintReport
    \/ Return

Spec == Init /\ [][Next]_vars

\* ------------------------------------------- get_issues_by_line on its own
\* Every text of at most n characters of the alphabet.
Texts(alphabet, n) == UNION {[1..k -> alphabet] : k \in 0..n}

OneFile == [is_file |-> TRUE, files |-> <<AllNames[1]>>]

\* get_issues_by_line(t) called on a text t; syntax is not read.
InitLines(texts) ==
    /\ \E t \in texts : InitWith(OneFile, "by_line", AllNames[1], t, EmptySyntax)
    /\ pending = {}
    /\ node_first = FALSE

NextLines ==
    \/ StartLines
    \/ ScanLine
    \/ EndLines

\* Blank and non-blank lines.
SpecBlank == InitLines(Texts({"\n", " ", "x"}, MaxBlankLen)) /\ [][NextLines]_vars

\* One line of quotes, comment marks and semicolons.
SpecSemi == InitLines(Texts({"'", "\"", "#", ";", "x"}, MaxSemiLen)) /\ [][NextLines]_vars

\* One line of code, whitespace and comment marks.
SpecComment == InitLines(Texts({"#", " ", "\t", "x"}, MaxCommentLen)) /\ [][NextLines]_vars

\* One line of the letters of "todo" and comment marks.
SpecTodo == InitLines(Texts({"t", "o", "d", "T", "#"}, MaxTodoLen)) /\ [][NextLines]_vars

\* ------------------------------------------------------- reordered variant
\* check_file with the detector calls of lines 119-125 in any order, and with
\* the two passes of line 147 listed in either order.
InitReordered ==
    /\ node_first \in BOOLEAN
    /\ pending = Detectors
    /\ \E cs \in UNION {[1..k -> ChunkIds] : k \in 0..MaxReorderedChunks},
          final_newline \in BOOLEAN :
          InitWith(OneFile, IF node_first THEN "by_node" ELSE "by_line", AllNames[1],
                   FileText(cs, final_newline), FileSyntax(cs))

\* One detector call on the current line, any of those not yet made.
ReorderedDetector ==
    /\ pc = "lines"
    /\ LineIndex <= Len(lines)
    /\ ~IsBlank(lines[LineIndex])
    /\ \E d \in pending :
          /\ issues' = issues \o Detect(d, lines[LineIndex], line_nbr, preceding_empty_lines)
          /\ pending' = pending \ {d}
    /\ UNCHANGED <<path, pc, queue, filepath, text, syntax, scanner, printed, reported, node_first>>

\* The turn of the loop ends: a blank line counted, or all detectors called.
ReorderedNextLine ==
    /\ pc = "lines"
    /\ LineIndex <= Len(lines)
    /\ IF IsBlank(lines[LineIndex])
       THEN /\ preceding_empty_lines' = preceding_empty_lines + 1
            /\ UNCHANGED pending
       ELSE /\ pending = {}
            /\ preceding_empty_lines' = 0
            /\ pending' = Detectors
    /\ line_nbr' = line_nbr + 1
    /\ UNCHANGED <<path, pc, queue, filepath, text, syntax, lines, issues, printed, reported, node_first>>

ReorderedEndLines ==
    /\ pc = "lines"
    /\ LineIndex > Len(lines)
    /\ lines' = <<>>
    /\ line_nbr' = FirstLineNbr
    /\ preceding_empty_lines' = 0
    /\ pc' = IF node_first THEN "print" ELSE "by_node"
    /\ UNCHANGED <<path, queue, filepath, text, syntax, issues, printed, reported, variant>>

ReorderedByNode ==
    /\ pc = "by_node"
    /\ IF syntax.parses
       THEN /\ issues' = issues \o get_issues_by_node(syntax)
            /\ pc' = IF node_first THEN "by_line" ELSE "print"
       ELSE /\ pc' = "SyntaxError"
            /\ UNCHANGED issues
    /\ UNCHANGED <<path, queue, filepath, text, syntax, scanner, printed, reported, variant>>

NextReordered ==
    \/ StartLines
    \/ ReorderedDetector
    \/ ReorderedNextLine
    \/ ReorderedEndLines
    \/ ReorderedByNode
    \/ PrintReport

SpecReordered == InitReordered /\ [][NextReordered]_vars

\* ================================================================== claims
TextLines == Split(text, "\n")

\* The issues with this code at this line that check_file holds.
CountAt(code, n) ==
    Cardinality({i \in 1..Len(issues) : issues[i].code = code /\ issues[i].line_nbr = n})

\* The line pass has dealt with line k.
LineDone(k) ==
    \/ pc \in {"by_node", "print", "return", "SyntaxError"}
    \/ pc = "lines" /\ k < LineIndex

WhitespaceOnly(line) == \A i \in 1..Len(line) : line[i] \in {" ", "\t"}

LineCodes == {"S001", "S002", "S003", "S004", "S005", "S006", "S007"}
NodeCodes == {"S008", "S009", "S010", "S011", "S012"}

\* ---- C1
\* C1: the report lines check_file prints are in ascending order of
\* (line number, code), whichever pass found each issue.
C1_ReportSorted ==
    \A i \in 1..(Len(printed) - 1) :
        \/ printed[i].line_nbr < printed[i + 1].line_nbr
        \/ /\ printed[i].line_nbr = printed[i + 1].line_nbr
           /\ CodeRank(printed[i].code) <= CodeRank(printed[i + 1].code)

\* A report in which an issue of the node pass, collected last, is printed
\* right before an issue of the line pass.
C1_Witness ==
    /\ pc = "return"
    /\ \E i \in 1..(Len(printed) - 1) :
          /\ printed[i].code \in NodeCodes
          /\ printed[i + 1].code \in LineCodes
    /\ \E i \in 1..(Len(printed) - 1) :
          /\ printed[i].line_nbr = printed[i + 1].line_nbr
          /\ printed[i].code # printed[i + 1].code

\* ---- C2
\* The whitespace-only lines that immediately precede line k.
BlankRun(ls, k) ==
    LET solid == {j \in 1..(k - 1) : ~WhitespaceOnly(ls[j])}
    IN  IF solid = {} THEN k - 1 ELSE k - 1 - Max(solid)

\* C2: a non-blank line gets exactly one S006 when more than 2 whitespace-only
\* lines immediately precede it and none otherwise, and the counter holds the
\* length of the blank run that ends at the current line (so it restarts from
\* 0 after every non-blank line).
C2_ExcessBlankLines ==
    /\ \A k \in 1..Len(TextLines) :
          LineDone(k) /\ ~WhitespaceOnly(TextLines[k])
          => CountAt("S006", k) = IF BlankRun(TextLines, k) > 2 THEN 1 ELSE 0
    /\ pc = "lines" => preceding_empty_lines = BlankRun(TextLines, LineIndex)

\* A line after exactly 3 blank lines was scanned and got its S006.
C2_Witness ==
    /\ pc = "by_node"
    /\ \E k \in 1..Len(TextLines) :
          /\ ~WhitespaceOnly(TextLines[k])
          /\ BlankRun(TextLines, k) = 3
          /\ CountAt("S006", k) = 1

\* ---- C3
\* The text from the first # of the line to its end.
FromFirstHash(line) == SubSeq(line, IndexFrom(line, "#", 1), Len(line))

\* C3: S005 is emitted exactly when the line holds a # and the text from the
\* first # on holds "todo" in any case.
C3_TodoOnlyInComment ==
    \A k \in 1..Len(TextLines) :
        LineDone(k) /\ ~WhitespaceOnly(TextLines[k])
        => CountAt("S005", k) =
             IF /\ "#" \in Range(TextLines[k])
                /\ Contains(Lower(FromFirstHash(TextLines[k])), <<"t", "o", "d", "o">>)
             THEN 1 ELSE 0

\* ---- C4
\* C4: a line whose first non-whitespace character is # gets no S004, and
\* S004 is emitted only for a line with code before the # and fewer than 2
\* whitespace characters right before it.
C4_FullLineCommentExempt ==
    \A k \in 1..Len(TextLines) :
        LET line == TextLines[k]
            first == LeadingSpaces(line) + 1
            comment == first <= Len(line) /\ line[first] = "#"
        IN  LineDone(k) /\ ~WhitespaceOnly(line)
            => /\ comment => CountAt("S004", k) = 0
               /\ CountAt("S004", k) > 0
                  => ~comment /\ "#" \in Range(line) /\ SpacesBeforeHash(line) < 2

\* ---- C5
Quotes == {"'", "\""}

\* The lexical class of every character of a line of Python from position i
\* on: open is "" in code, or the quote that opened the string literal.
RECURSIVE LexTags(_, _, _)
LexTags(line, i, open) ==
    IF i > Len(line) THEN <<>>
    ELSE IF open = ""
    THEN IF line[i] = "#" THEN [j \in 1..(Len(line) - i + 1) |-> "comment"]
         ELSE IF line[i] \in Quotes THEN <<"quote">> \o LexTags(line, i + 1, line[i])
         ELSE <<"code">> \o LexTags(line, i + 1, "")
    ELSE IF line[i] = open THEN <<"quote">> \o LexTags(line, i + 1, "")
    ELSE <<"string">> \o LexTags(line, i + 1, open)

Lex(line) == LexTags(line, 1, "")

\* Every string literal of the line is closed on the line and none is
\* triple-quoted.
Lexable(line) ==
    /\ Cardinality({i \in 1..Len(line) : Lex(line)[i] = "quote"}) % 2 = 0
    /\ ~\E i \in 1..(Len(line) - 2) :
          line[i] \in Quotes /\ line[i + 1] = line[i] /\ line[i + 2] = line[i]

\* No string literal of the line holds a quote character.
NoQuoteInString(line) ==
    \A i \in 1..Len(line) : Lex(line)[i] = "string" => line[i] \notin Quotes

SemicolonIn(line, class) ==
    \E i \in 1..Len(line) : line[i] = ";" /\ Lex(line)[i] = class

MutableDefaultsAt(n) ==
    LET nodes == syntax.nodes
        funcs == {f \in 1..Len(nodes) : nodes[f].kind = "FunctionDef"}
        Hits(ds) == {i \in 1..Len(ds) :
                        ds[i].kind \in {"List", "Dict", "Set"} /\ ds[i].lineno = n}
    IN  UNION {{<<f, "positional", i>> : i \in Hits(nodes[f].defaults)} : f \in funcs}
        \cup UNION {{<<f, "keyword_only", i>> : i \in Hits(nodes[f].kw_defaults)} : f \in funcs}

\* C6: once the node pass is over, every line holds as many S012 issues as
\* mutable defaults (list, dict or set literals) stand on it, positional or
\* keyword-only, in plain or nested functions.
C6_MutableDefaults ==
    pc = "print"
    => \A n \in 1..Len(TextLines) :
          CountAt("S012", n) = Cardinality(MutableDefaultsAt(n))

\* ---- C7
\* C7: a text that does not parse ends check_file in SyntaxError, and no
\* report line of the file is printed: check_file never reaches its print
\* loop, whatever the line pass found.
C7_ParseErrorNoReport ==
    /\ pc = "SyntaxError" => ~syntax.parses /\ printed = <<>> /\ filepath \notin reported
    /\ ~syntax.parses => pc \notin {"print", "return"} /\ printed = <<>>

\* The run ended in SyntaxError with line issues found and none printed.
C7_Witness ==
    /\ pc = "SyntaxError"
    /\ issues # <<>>
    /\ printed = <<>>

\* ---- C8
\* C8: when a directory is analyzed and a file does not parse, every file
\* after it in the sorted order is still analyzed and reported.
C8_BatchContinues ==
    pc = "SyntaxError" /\ ~path.is_file
    => \A i \in 1..Len(queue) : queue[i] = TestsPy \/ queue[i] \in reported

\* ---- C9
\* C9: every issue check_file holds has a line number in 1..N, N the number
\* of lines of the text, and a code of the catalogue; an issue of the line
\* pass is never at a whitespace-only line.
C9_IssuesValid ==
    \A i \in 1..Len(issues) :
        /\ issues[i].line_nbr \in 1..Len(TextLines)
        /\ issues[i].code \in LineCodes \cup NodeCodes
        /\ issues[i].code \in LineCodes => ~WhitespaceOnly(TextLines[issues[i].line_nbr])

\* Both passes found issues in a text that has a whitespace-only line before
\* a line with an issue.
C9_Witness ==
    /\ pc = "print"
    /\ \E i, j \in 1..Len(issues) :
          /\ issues[i].code \in LineCodes
          /\ issues[j].code \in NodeCodes
          /\ \E k \in 1..(issues[i].line_nbr - 1) :
                TextLines[k] # <<>> /\ WhitespaceOnly(TextLines[k])

\* ---- C10
\* C10: with the detector calls in any order and the passes listed in either
\* order, check_file prints what it prints with the order of the code.
C10_OrderInsensitive ==
    pc = "return"
    => printed = Report(filepath, get_issues_by_line(text) \o get_issues_by_node(syntax))

\* A report printed from issues that were collected node pass first and with
\* the detectors of one line in another order than the code's.
C10_Witness ==
    /\ pc = "return"
    /\ node_first
    /\ Len(printed) > 2
    /\ \E i, j \in 1..Len(issues) :
          /\ i < j
          /\ issues[i].line_nbr = issues[j].line_nbr
          /\ issues[i].code \in LineCodes
          /\ issues[j].code \in LineCodes
          /\ CodeRank(issues[i].code) > CodeRank(issues[j].code)

====
